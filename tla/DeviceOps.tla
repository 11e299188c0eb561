------------------------------ MODULE DeviceOps ------------------------------
(***************************************************************************)
(* What a Session does on the phone (internal/linkcore/session.go): the    *)
(* connection loop opens one, app requests install and uninstall through   *)
(* it, and each of them owns operationMu meanwhile (daemon.go).            *)
(*                                                                         *)
(* A transfer to the phone and a reading of its app list each run in a     *)
(* goroutine of their own, whose buffered channel is read in a select with *)
(* the deadline of the request.  A deadline abandons the goroutine: the    *)
(* phone may still do what it was asked to, at any later time.             *)
(*                                                                         *)
(* All requests are about one bundle identifier.  Whether a call of Link   *)
(* Core succeeds, and when, is up to the environment.                      *)
(***************************************************************************)
EXTENDS Integers

CONSTANTS
    Operations,      \* the app requests
    Commands         \* what they may be: functions from Operations

Opener == "opener"   \* the connection loop, in OpenSession
Free == "free"
Actors == Operations \cup {Opener}

ASSUME OperationsAssumption ==
    /\ {Opener, Free} \cap Operations = {}
    /\ Commands \subseteq [Operations -> {"install", "uninstall"}]

VARIABLES
    command,         \* of a request: "install" or "uninstall"
    pc,              \* where an actor is
    operationMu,     \* its owner
    expired,         \* actors whose context is done
    tunnel,          \* a tunnel is open, on the fixed local forward port
    session,         \* Daemon.session is not nil
    connections,     \* the open connections: who opened it, for what
    transfer,        \* of a request: its transfer goroutine and its result
    list,            \* of an actor: its BrowseUserApps goroutine and its result
    outcome,         \* of a request: what Install or Uninstall returned
    turn, turns,     \* history: the order in which requests got operationMu
    installed,       \* the phone has the app
    pending,         \* requests that the phone may yet carry out
    writer           \* whose request the phone carried out last; Free if none

tunnelVars == <<tunnel, session>>
turnVars == <<turn, turns>>
phoneVars == <<installed, pending, writer>>
opsVars == <<command, pc, operationMu, expired, tunnelVars, connections,
             transfer, list, outcome, turnVars, phoneVars>>

OpenerPCs == {"connecting", "dialing", "handshaking"}
TransferPCs == {"starting", "transferring"}
ListPCs == {"browsing", "reading"}
\* The actor owns operationMu in these.
Busy == OpenerPCs \cup TransferPCs \cup ListPCs
Results == {"none", "running", "error"}

TypeOK ==
    /\ command \in Commands
    /\ pc \in [Actors -> {"idle", "locking", "done"} \cup Busy]
    /\ operationMu \in Actors \cup {Free}
    /\ expired \subseteq Actors
    /\ tunnel \in BOOLEAN /\ session \in BOOLEAN
    /\ connections \subseteq Actors \X {"discovery", "transfer", "list"}
    /\ transfer \in [Operations -> Results \cup {"ok"}]
    /\ list \in [Actors -> Results \cup {"present", "absent"}]
    /\ outcome \in [Operations -> {"none", "error", "ok"}]
    /\ turn \in [Operations -> Nat] /\ turns \in Nat
    /\ installed \in BOOLEAN
    /\ pending \subseteq Operations
    /\ writer \in Operations \cup {Free}

Init ==
    /\ command \in Commands
    /\ pc = [a \in Actors |-> "idle"]
    /\ operationMu = Free /\ expired = {}
    /\ tunnel = FALSE /\ session = FALSE
    /\ connections = {}
    /\ transfer = [o \in Operations |-> "none"]
    /\ list = [a \in Actors |-> "none"]
    /\ outcome = [o \in Operations |-> "none"]
    /\ turn = [o \in Operations |-> 0] /\ turns = 0
    /\ installed \in BOOLEAN
    /\ pending = {} /\ writer = Free

Go(a, from, to) == pc[a] = from /\ pc' = [pc EXCEPT ![a] = to]
Connect(a, service) == connections' = connections \cup {<<a, service>>}
Disconnect(a, service) == connections' = connections \ {<<a, service>>}

-----------------------------------------------------------------------------
(* OpenSession, under operationMu in Daemon.establish *)

OpenerStep(from, to) ==
    /\ Go(Opener, from, to)
    /\ UNCHANGED <<command, transfer, outcome, turnVars, phoneVars>>

\* establish: nothing to do if there is a session.
OpenBegin ==
    /\ operationMu = Free /\ ~session
    /\ OpenerStep("idle", "connecting")
    /\ operationMu' = Opener
    /\ UNCHANGED <<expired, tunnelVars, connections, list>>

\* Every return of OpenSession, and of establish after it.
OpenReturns(from, published) ==
    /\ OpenerStep(from, "idle")
    /\ operationMu' = Free /\ session' = published
    /\ expired' = expired \ {Opener}

\* The pair record is loaded and ConnectRemotePairingTCPUserspace succeeds,
\* which needs the port.
TunnelOpens ==
    /\ ~tunnel
    /\ OpenerStep("connecting", "dialing")
    /\ tunnel' = TRUE
    /\ UNCHANGED <<session, operationMu, expired, connections, list>>

\* The pair record cannot be loaded, or the tunnel cannot be established.
TunnelFails ==
    /\ OpenReturns("connecting", FALSE)
    /\ UNCHANGED <<tunnel, connections, list>>

\* NewWithAddrPortDeviceContext
DiscoveryConnects ==
    /\ Opener \notin expired
    /\ OpenerStep("dialing", "handshaking")
    /\ Connect(Opener, "discovery")
    /\ UNCHANGED <<tunnelVars, operationMu, expired, list>>

DiscoveryCloses(from, left) ==
    /\ OpenReturns(from, FALSE)
    /\ tunnel' = left
    /\ Disconnect(Opener, "discovery")
    /\ UNCHANGED list

\* discoverDevice fails: its context is done, there is no connection, no
\* handshake, or the answer of another device.
Discovery(left) ==
    \E from \in {"dialing", "handshaking"} : DiscoveryCloses(from, left)

\* Mutant: the error is returned at once.
DiscoveryLeaks == Discovery(tunnel)

DiscoveryFails == Discovery(FALSE)

\* The identity is the configured one; the connection closes on return.
Handshake ==
    /\ Opener \notin expired
    /\ OpenerStep("handshaking", "browsing")
    /\ Disconnect(Opener, "discovery")
    /\ UNCHANGED <<tunnelVars, operationMu, expired, list>>

\* The loop saw the end of the pump, or the daemon stops: Session.Close,
\* which waits for operationMu.
CloseSession ==
    /\ operationMu = Free /\ session
    /\ tunnel' = FALSE /\ session' = FALSE
    /\ UNCHANGED <<command, pc, operationMu, expired, connections, transfer,
                   list, outcome, turnVars, phoneVars>>

-----------------------------------------------------------------------------
(* browseUserApps: the readiness check and both readbacks *)

Fail(o) == outcome' = [outcome EXCEPT ![o] = "error"]

\* The caller gets the list, or an error.
ReadinessFails(from) ==
    /\ OpenReturns(from, FALSE)
    /\ tunnel' = FALSE

ReadbackReturns(o, from, result) ==
    /\ Go(o, from, "done")
    /\ operationMu' = Free /\ expired' = expired \ {o}
    /\ outcome' = [outcome EXCEPT ![o] = result]
    /\ UNCHANGED <<command, tunnelVars, transfer, turnVars, phoneVars>>

ListError(a, from) ==
    \/ a = Opener /\ ReadinessFails(from)
    \/ a # Opener /\ ReadbackReturns(a, from, "error")

\* The app is in the list after an install and not after an uninstall.
ReadBack(o) == IF command[o] = "install" THEN "present" ELSE "absent"

ListSuccess(a, confirmed) ==
    \/ a = Opener /\ OpenReturns("reading", TRUE) /\ UNCHANGED tunnel
    \/ /\ a # Opener
       /\ ReadbackReturns(a, "reading", IF confirmed THEN "ok" ELSE "error")

ListBegins(a) ==
    /\ Go(a, "browsing", "reading")
    /\ Connect(a, "list")
    /\ list' = [list EXCEPT ![a] = "running"]
    /\ UNCHANGED <<command, operationMu, expired, tunnelVars, transfer, outcome,
                   turnVars, phoneVars>>

\* installationproxy.New fails.
ListRefused(a) == ListError(a, "browsing") /\ UNCHANGED <<connections, list>>

\* proxy.Close, and nobody reads the channel any more.
EndList(a) == Disconnect(a, "list") /\ list' = [list EXCEPT ![a] = "none"]

\* ctx.Done: the goroutine is abandoned.
AbandonIf(a, given) ==
    /\ given /\ a \in expired
    /\ ListError(a, "reading")
    /\ EndList(a)

\* Mutant: the list is received without a select on the context.
ListUnbounded(a) == AbandonIf(a, FALSE)

ListAbandoned(a) == AbandonIf(a, TRUE)

ListReceived(a, confirmed) ==
    /\ \/ list[a] = "error" /\ ListError(a, "reading")
       \/ list[a] \in {"present", "absent"} /\ ListSuccess(a, confirmed)
    /\ EndList(a)

\* Mutant: any list will do.
ListTrusting(a) == ListReceived(a, TRUE)

ListReturns(a) == ListReceived(a, a # Opener => list[a] = ReadBack(a))

\* The goroutine: the phone answers, or the connection ends.
ListAnswered(a) ==
    /\ list[a] = "running"
    /\ \E answer \in {"error", IF installed THEN "present" ELSE "absent"} :
           list' = [list EXCEPT ![a] = answer]
    /\ UNCHANGED <<command, pc, operationMu, expired, tunnelVars, connections,
                   transfer, outcome, turnVars, phoneVars>>

Browse(a) ==
    ListBegins(a) \/ ListRefused(a) \/ ListAbandoned(a) \/ ListReturns(a)

-----------------------------------------------------------------------------
(* Install and Uninstall, under operationMu in Daemon.install and uninstall *)

OperationStep(o, from, to) ==
    /\ Go(o, from, to)
    /\ UNCHANGED <<command, tunnelVars, list>>

\* The request is decoded; install validates the bundle.
Arrive(o) ==
    /\ OperationStep(o, "idle", "locking")
    /\ UNCHANGED <<operationMu, expired, connections, transfer, outcome,
                   turnVars, phoneVars>>

\* ValidateApp fails, before operationMu is asked for.
AppInvalid(o) ==
    /\ command[o] = "install"
    /\ OperationStep(o, "locking", "done") /\ Fail(o)
    /\ UNCHANGED <<operationMu, expired, connections, transfer, turnVars,
                   phoneVars>>

\* Lock and currentSession.
Lock(o) ==
    /\ operationMu = Free
    /\ \/ /\ ~session
          /\ OperationStep(o, "locking", "done") /\ Fail(o)
          /\ UNCHANGED <<operationMu, turnVars>>
       \/ /\ session
          /\ OperationStep(o, "locking", "starting")
          /\ operationMu' = o
          /\ turns' = turns + 1 /\ turn' = [turn EXCEPT ![o] = turns + 1]
          /\ UNCHANGED outcome
    /\ UNCHANGED <<expired, connections, transfer, phoneVars>>

OperationFails(o, from) ==
    /\ OperationStep(o, from, "done")
    /\ Fail(o) /\ operationMu' = Free /\ expired' = expired \ {o}
    /\ UNCHANGED <<turnVars, phoneVars>>

\* zipconduit.New or installationproxy.New, and the goroutine.
TransferBegins(o) ==
    /\ OperationStep(o, "starting", "transferring")
    /\ Connect(o, "transfer")
    /\ transfer' = [transfer EXCEPT ![o] = "running"]
    /\ pending' = pending \cup {o}
    /\ UNCHANGED <<operationMu, expired, outcome, turnVars, installed, writer>>

TransferRefused(o) ==
    OperationFails(o, "starting") /\ UNCHANGED <<connections, transfer>>

AbandonTransfer(o, left) ==
    /\ o \in expired
    /\ OperationFails(o, "transferring")
    /\ connections' = left /\ UNCHANGED transfer

\* Mutant: a timeout leaves the connection to its goroutine.
TimeoutLeaks(o) == AbandonTransfer(o, connections)

\* ctx.Done: "timed out"; the connection is closed under the goroutine.
TransferAbandoned(o) == AbandonTransfer(o, connections \ {<<o, "transfer">>})

TransferReturns(o) ==
    /\ Disconnect(o, "transfer")
    /\ transfer' = [transfer EXCEPT ![o] = "none"]
    /\ \/ transfer[o] = "error" /\ OperationFails(o, "transferring")
       \/ /\ transfer[o] = "ok" /\ OperationStep(o, "transferring", "browsing")
          /\ UNCHANGED <<operationMu, expired, outcome, turnVars, phoneVars>>

Operate(o) ==
    Lock(o) \/ TransferBegins(o) \/ TransferRefused(o) \/ TransferAbandoned(o)
    \/ TransferReturns(o)

\* The goroutine ends: its result goes to a channel that is read, or, once it
\* was abandoned, to one that is not.  An error says nothing about the phone,
\* which may have done what it was asked to, or still do it; what it reports
\* complete it is done with, whether or not the app list shows it.
TransferAnswered(o) ==
    /\ transfer[o] = "running"
    /\ \E answer \in IF pc[o] = "done" THEN {"none"}
                     ELSE {"error"} \cup (IF o \in pending THEN {} ELSE {"ok"}) :
           transfer' = [transfer EXCEPT ![o] = answer]
    /\ UNCHANGED <<command, pc, operationMu, expired, tunnelVars, connections,
                   list, outcome, turnVars, phoneVars>>

-----------------------------------------------------------------------------
(* The environment *)

\* The deadline of connectCtx, installCtx or uninstallCtx passes, or the
\* daemon is stopped.
Expire(a) ==
    /\ pc[a] \in Busy /\ a \notin expired
    /\ expired' = expired \cup {a}
    /\ UNCHANGED <<command, pc, operationMu, tunnelVars, connections, transfer,
                   list, outcome, turnVars, phoneVars>>

\* The phone carries a request out, or drops it.
PhoneDecides(o) ==
    /\ o \in pending /\ pending' = pending \ {o}
    /\ \/ installed' = (command[o] = "install") /\ writer' = o
       \/ UNCHANGED <<installed, writer>>
    /\ UNCHANGED <<command, pc, operationMu, expired, tunnelVars, connections,
                   transfer, list, outcome, turnVars>>

OpenSession ==
    \/ OpenBegin \/ TunnelOpens \/ TunnelFails \/ DiscoveryConnects
    \/ DiscoveryFails \/ Handshake \/ Browse(Opener)

Environment ==
    \/ CloseSession
    \/ \E a \in Actors : Expire(a) \/ ListAnswered(a)
    \/ \E o \in Operations : TransferAnswered(o) \/ PhoneDecides(o)

\* The steps of an operation after its request has arrived.
Run(o) == Operate(o) \/ Browse(o)

Next ==
    \/ OpenSession \/ Environment
    \/ \E o \in Operations : Arrive(o) \/ AppInvalid(o) \/ Run(o)

Spec == Init /\ [][Next]_opsVars

-----------------------------------------------------------------------------
(* Properties *)

\* session.go:62-71: a tunnel is open while OpenSession works on it or while
\* it belongs to the session of the daemon.  Whichever step of OpenSession
\* fails, the tunnel of the earlier ones is not left behind, where it would
\* hold the local forward port against every later attempt.
TunnelOwned ==
    tunnel <=> session \/ pc[Opener] \in {"dialing", "handshaking"} \cup ListPCs

\* Only the owner of operationMu has connections to the phone, one at a time,
\* and only through an open tunnel: no request and no failed acquisition
\* leaves one behind when it returns, not even after a deadline.
ConnectionsOwned ==
    \A c, d \in connections : c = d /\ c[1] = operationMu /\ tunnel

\* architecture.md:170: after a success the phone is as requested, until it
\* carries out a request that got operationMu later, or an earlier one whose
\* own caller was told that it failed.  A transfer abandoned at its deadline
\* is the latter: no success stands against it.
SuccessStands ==
    \A o \in Operations :
        outcome[o] = "ok" /\ installed # (command[o] = "install") =>
            \E g \in Operations :
                writer = g /\ (turn[g] > turn[o] \/ outcome[g] = "error")

\* Who is where: the owner of operationMu is the one that is busy, and a
\* request is busy only while there is a session.
Owner ==
    /\ \A a \in Actors : pc[a] \in Busy <=> operationMu = a
    /\ pc[Opener] \in {"idle"} \cup OpenerPCs \cup ListPCs
    /\ session => pc[Opener] = "idle"
    /\ \A o \in Operations :
           /\ pc[o] \in {"idle", "locking", "done"} \cup TransferPCs \cup ListPCs
           /\ pc[o] \in Busy => session

\* Which connections are open, and when.
Connected ==
    \A c \in connections :
        \/ c = <<Opener, "discovery">> /\ pc[Opener] = "handshaking"
        \/ c[2] = "transfer" /\ pc[c[1]] = "transferring"
        \/ c[2] = "list" /\ pc[c[1]] = "reading"

\* g got operationMu after all the others.
Latest(g) == \A o \in Operations \ {g} : turn[o] < turn[g]

Turns ==
    /\ \A o \in Operations : turn[o] <= turns
    /\ \A g \in Operations : operationMu = g => Latest(g)

Outcomes == \A o \in Operations : pc[o] = "done" <=> outcome[o] # "none"

\* Whose requests the phone may yet carry out: those in transfer, and those
\* that failed.  A transfer that reported its end is none of them.
Pending ==
    /\ \A g \in pending : outcome[g] = "error" \/ pc[g] = "transferring"
    /\ \A o \in Operations : transfer[o] = "ok" => o \notin pending

\* A list in hand is true, unless a failed request was carried out since.
ListTrue ==
    \A o \in Operations :
        /\ pc[o] = "reading" /\ list[o] \in {"present", "absent"}
        /\ installed # (list[o] = "present")
        => \E g \in Operations : writer = g /\ outcome[g] = "error"

\* The inductive invariant behind the properties above.
IInv ==
    /\ TypeOK /\ Owner /\ TunnelOwned /\ Connected
    /\ Turns /\ Outcomes /\ Pending /\ ListTrue /\ SuccessStands

=============================================================================
