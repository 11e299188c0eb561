------------------------ MODULE ControlSocketProofs ------------------------
(***************************************************************************)
(* Theorems about ControlSocket, for every number of processes.            *)
(***************************************************************************)
EXTENDS ControlSocket, TLAPS

\* The initial state satisfies the invariant.
LEMMA InvInit == Init => IInv
BY ProcessesAssumption
   DEF Init, IInv, TypeOK, FileOwner, Exclusive, Starting, Serving, Stopping,
       Ended, Served

\* Every step keeps the types.
LEMMA TypeNext ==
  ASSUME TypeOK, Next PROVE TypeOK'
<1> USE DEF TypeOK, Goto
<1>1. PICK p \in Processes : Start(p) \/ Step(p) \/ Close(p) \/ Crash(p)
  BY DEF Next
<1>2. path' \in Processes \cup {Absent} /\ overlaps' \subseteq {"starting", "stopping"}
  BY <1>1 DEF Start, NoteOverlap, Step, Lstat, Dial, DialThen, RemoveStale,
     RemoveLeaving, Bind, Listen, Protect, Abandon, Return, Close,
     CloseListener, Crash
<1>3. pc' \in [Processes -> {"off"} \cup Starting \cup Serving \cup Stopping
                            \cup Ended]
  BY <1>1 DEF Start, NoteOverlap, Step, Lstat, Dial, DialThen, RemoveStale,
     RemoveLeaving, Bind, Listen, Protect, Abandon, Return, Close,
     CloseListener, Crash, Starting, Serving, Stopping, Ended
<1>4. QED BY <1>2, <1>3

\* Every step keeps the file with a process that bound it.
LEMMA FileOwnerNext ==
  ASSUME TypeOK, FileOwner, Next PROVE FileOwner'
<1> USE ProcessesAssumption DEF TypeOK, FileOwner, Goto
<1>1. PICK p \in Processes : Start(p) \/ Step(p) \/ Close(p) \/ Crash(p)
  BY DEF Next
<1>2. CASE Start(p) \/ Lstat(p) \/ Dial(p) \/ RemoveStale(p)
  BY <1>2 DEF Start, Lstat, Dial, DialThen, RemoveStale, RemoveLeaving
<1>3. CASE Bind(p) \/ Listen(p) \/ Protect(p) \/ Abandon(p)
  BY <1>3 DEF Bind, Listen, Protect, Abandon
<1>4. CASE Return(p) \/ Close(p) \/ Crash(p)
  BY <1>4 DEF Return, Close, CloseListener, Crash
<1>5. QED BY <1>1, <1>2, <1>3, <1>4 DEF Step

\* Every step keeps the owners apart until the first overlap.
LEMMA ExclusiveNext ==
  ASSUME TypeOK, Exclusive, Next PROVE Exclusive'
<1> USE ProcessesAssumption DEF TypeOK, Exclusive, Goto, Starting, Serving, Stopping,
        Served
<1>1. PICK p \in Processes : Start(p) \/ Step(p) \/ Close(p) \/ Crash(p)
  BY DEF Next
<1>2. CASE Start(p)
  BY <1>2 DEF Start, NoteOverlap
<1>3. CASE Lstat(p) \/ Dial(p)
  BY <1>3 DEF Lstat, Dial, DialThen, Listening
<1>4. CASE RemoveStale(p)
  BY <1>4 DEF RemoveStale, RemoveLeaving
<1>5. CASE Bind(p)
  BY <1>5 DEF Bind
<1>6. CASE Listen(p) \/ Protect(p)
  BY <1>6 DEF Listen, Protect
<1>7. CASE Abandon(p) \/ Return(p)
  BY <1>7 DEF Abandon, Return
<1>8. CASE Close(p)
  BY <1>8 DEF Close, CloseListener, NoteOverlap
<1>9. CASE Crash(p)
  BY <1>9 DEF Crash
<1>10. QED
  BY <1>1, <1>2, <1>3, <1>4, <1>5, <1>6, <1>7, <1>8, <1>9 DEF Step

\* The invariant holds in every reachable state.
THEOREM Invariant == Spec => []IInv
<1>1. IInv /\ [Next]_vars => IInv'
  <2>1. ASSUME IInv, Next PROVE IInv'
    BY <2>1, TypeNext, FileOwnerNext, ExclusiveNext DEF IInv
  <2>2. ASSUME IInv, UNCHANGED vars PROVE IInv'
    BY <2>2 DEF vars, IInv, TypeOK, FileOwner, Exclusive, Served
  <2>3. QED BY <2>1, <2>2
<1>2. QED BY InvInit, <1>1, PTL DEF Spec

\* The socket file and every process stay within their types.
THEOREM TypeCorrect == Spec => []TypeOK
<1>1. IInv => TypeOK BY DEF IInv
<1>2. QED BY Invariant, <1>1, PTL

\* Without overlapping starts and stops one reachable daemon serves a profile.
THEOREM OneReachableOwnerHolds == Spec => []OneReachableOwner
<1>1. IInv => OneReachableOwner
  BY DEF IInv, Exclusive, OneReachableOwner, Served, Serving
<1>2. QED BY Invariant, <1>1, PTL

\* Only a crash leaves a socket file behind.
THEOREM NoFileAfterExitHolds == Spec => []NoFileAfterExit
<1>1. IInv => NoFileAfterExit
  BY DEF IInv, FileOwner, NoFileAfterExit
<1>2. QED BY Invariant, <1>1, PTL

\* A daemon is refused only while another one listens.
THEOREM RefusedByOwnerHolds == Spec => RefusedByOwner
<1>1. TypeOK /\ [Next]_vars =>
        [\A p \in Processes : pc[p] # "refused" /\ pc'[p] = "refused" =>
             \E q \in Processes : Listening(q)]_vars
  <2> SUFFICES ASSUME TypeOK, Next,
                      NEW p \in Processes, pc[p] # "refused", pc'[p] = "refused"
               PROVE  \E q \in Processes : Listening(q)
    OBVIOUS
  <2>1. PICK r \in Processes : Start(r) \/ Step(r) \/ Close(r) \/ Crash(r)
    BY DEF Next
  <2>2. Dial(r)
    BY <2>1 DEF TypeOK, Goto, Start, Step, Lstat, RemoveStale, RemoveLeaving,
       Bind, Listen, Protect, Abandon, Return, Close, CloseListener, Crash
  <2>3. QED BY <2>2 DEF Dial, DialThen, TypeOK, Goto
<1>2. QED BY TypeCorrect, <1>1, PTL DEF Spec, RefusedByOwner

=============================================================================
