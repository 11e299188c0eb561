--------------------------- MODULE ControlSocket ---------------------------
(***************************************************************************)
(* The control socket (internal/linkcore/control.go, daemon.go): how the   *)
(* daemons that are started on one profile decide which of them serves it, *)
(* with nothing but the socket file to go by.  A socket is named after the *)
(* process that bound it; a daemon started again is another process.       *)
(***************************************************************************)
EXTENDS Naturals

CONSTANTS
    Processes    \* the daemons that are ever started on the profile

Absent == "absent"

ASSUME ProcessesAssumption == Absent \notin Processes

VARIABLES
    path,        \* the socket file: who bound it, or Absent
    pc,          \* where each process is in Serve
    overlaps     \* history: what others were in the middle of, "starting" or
                 \* "stopping", whenever one was started or told to stop

vars == <<path, pc, overlaps>>

Starting == {"lstat", "dial", "remove", "bind", "listen", "chmod"}
Serving == {"serving"}
Stopping == {"abandoning", "draining"}
Ended == {"refused", "failed", "exited", "crashed"}

TypeOK ==
    /\ path \in Processes \cup {Absent}
    /\ pc \in [Processes -> {"off"} \cup Starting \cup Serving \cup Stopping
                            \cup Ended]

    /\ overlaps \subseteq {"starting", "stopping"}

Init ==
    /\ path = Absent
    /\ pc = [p \in Processes |-> "off"]
    /\ overlaps = {}

Goto(p, from, to) == pc[p] = from /\ pc' = [pc EXCEPT ![p] = to]

\* The kernel completes a connection to the socket of p.
Listening(p) == pc[p] \in {"chmod", "serving"}

-----------------------------------------------------------------------------
(* prepareUnixListener *)

\* launchd starts the next instance of its job when the last one is gone; a
\* user at a terminal does not wait.
NoteOverlap ==
    overlaps' = overlaps
        \cup {k \in {"starting"} : \E q \in Processes : pc[q] \in Starting}
        \cup {k \in {"stopping"} : \E q \in Processes : pc[q] \in Stopping}

Start(p) ==
    /\ Goto(p, "off", "lstat")
    /\ NoteOverlap
    /\ UNCHANGED path

Lstat(p) ==
    /\ Goto(p, "lstat", IF path = Absent THEN "bind" ELSE "dial")
    /\ UNCHANGED <<path, overlaps>>

DialThen(p, live) ==
    /\ Goto(p, "dial", IF path # Absent /\ live THEN "refused" ELSE "remove")
    /\ UNCHANGED <<path, overlaps>>

\* Mutant: whatever is found is taken for stale.
DialIgnored(p) == DialThen(p, FALSE)

Dial(p) == DialThen(p, \E q \in Processes : q = path /\ Listening(q))

RemoveLeaving(p, left) ==
    /\ Goto(p, "remove", IF path = Absent THEN "failed" ELSE "bind")
    /\ path' = left
    /\ UNCHANGED overlaps

\* Mutant: the stale file stays, and bind finds it.
RemoveNothing(p) == RemoveLeaving(p, path)

\* os.Remove fails if somebody else removed the socket.
RemoveStale(p) == RemoveLeaving(p, Absent)

\* net.Listen: bind creates the file, ...
Bind(p) ==
    /\ Goto(p, "bind", IF path = Absent THEN "listen" ELSE "failed")
    /\ path' = IF path = Absent THEN p ELSE path
    /\ UNCHANGED overlaps

\* ... and only then does the kernel accept connections.
Listen(p) == Goto(p, "listen", "chmod") /\ UNCHANGED <<path, overlaps>>

\* os.Chmod goes by the path, whosever socket it is by now.
Protect(p) ==
    /\ Goto(p, "chmod", IF path = Absent THEN "abandoning" ELSE "serving")
    /\ UNCHANGED <<path, overlaps>>

\* listener.Close unlinks the path and os.Remove finds nothing more to do.
Abandon(p) ==
    /\ Goto(p, "abandoning", "failed")
    /\ path' = Absent
    /\ UNCHANGED overlaps

-----------------------------------------------------------------------------
(* The end of Serve *)

\* The context goroutine, or the deferred call, closes the listener: its file
\* is unlinked.  The outer session and the location still hold up Serve.
CloseListener(p, to, left) ==
    /\ Goto(p, "serving", to)
    /\ path' = left
    /\ NoteOverlap

\* Mutant: Serve returns an accept error before it has deferred its clean-up.
CloseWithoutCleanup(p) == CloseListener(p, "exited", path)

Close(p) == CloseListener(p, "draining", Absent)

\* The deferred os.Remove, at the very end.
Return(p) ==
    /\ Goto(p, "draining", "exited")
    /\ path' = Absent
    /\ UNCHANGED overlaps

\* A crash, a kill or a power failure leaves the file.
Crash(p) ==
    /\ pc[p] \in Starting \cup Serving \cup Stopping
    /\ pc' = [pc EXCEPT ![p] = "crashed"]
    /\ UNCHANGED <<path, overlaps>>

Step(p) ==
    \/ Lstat(p) \/ Dial(p) \/ RemoveStale(p) \/ Bind(p) \/ Listen(p)
    \/ Protect(p) \/ Abandon(p) \/ Return(p)

Next == \E p \in Processes : Start(p) \/ Step(p) \/ Close(p) \/ Crash(p)

\* A process that is starting or stopping goes on.
Fairness == \A p \in Processes : WF_vars(Step(p))

Spec == Init /\ [][Next]_vars
FairSpec == Spec /\ Fairness

-----------------------------------------------------------------------------
(* Properties *)

Served == {p \in Processes : pc[p] \in Serving}

\* As long as nobody is started or stopped while another daemon is starting or
\* stopping, one daemon serves the profile and the path is its own socket,
\* whatever crashes before or in between.
OneReachableOwner ==
    overlaps = {} => \A p \in Served : path = p

\* A socket file that nobody serves is the rest of a crash, or about to be
\* removed: an orderly exit or a failed start leaves none, even if starts race.
NoFileAfterExit ==
    path # Absent => pc[path] \notin {"off", "refused", "failed", "exited"}

\* A daemon is refused only because another one is there to serve.
RefusedByOwner ==
    [][\A p \in Processes :
           pc[p] # "refused" /\ pc'[p] = "refused" =>
               \E q \in Processes : Listening(q)]_vars

\* A start comes to an end, and unless starts and stops overlap it fails only
\* if the process does: the rest of a crash does not keep a daemon from serving.
StartRecovers ==
    \A p \in Processes :
        pc[p] = "lstat" ~> \/ pc[p] \in {"serving", "refused", "crashed"}
                           \/ overlaps # {} /\ pc[p] = "failed"

\* The file belongs to a process that has bound it and not yet let go of it.
FileOwner == path # Absent => pc[path] \in {"listen", "chmod", "serving", "crashed"}

\* What holds before the first overlap: one process at a time is starting or
\* stopping, the socket of a serving daemon or of the one about to serve is in
\* place, and whoever is about to remove or to bind has no daemon to disturb.
Exclusive ==
    overlaps = {} =>
        /\ \A p, q \in Processes :
               {pc[p], pc[q]} \subseteq Starting \cup Stopping => p = q
        /\ \A p \in Processes :
               /\ pc[p] \in {"listen", "chmod", "serving"} => path = p
               /\ pc[p] \in {"remove", "bind", "draining"} => Served = {}
               /\ pc[p] # "abandoning"

\* The inductive invariant.
IInv == TypeOK /\ FileOwner /\ Exclusive

\* control.go: a daemon does not start to serve a profile that another process
\* still serves, even if it is started while a third one is stopping.
SingleOwnerAcrossRestarts ==
    "starting" \notin overlaps => \A p, q \in Served : p = q

=============================================================================
