---------------------------- MODULE ProfileProofs ----------------------------
(***************************************************************************)
(* The inductive invariants of Profile and of LaunchAgent, which extends   *)
(* it, and the safety properties they imply, for every set of processes,   *)
(* of output paths and of agents.                                          *)
(***************************************************************************)
EXTENDS LaunchAgent, TLAPS

\* An empty directory.
LEMMA InitHolds == Init => IInv
<1>. SUFFICES ASSUME Init PROVE IInv
  OBVIOUS
<1>. USE NoneAssumption DEF Init, Missing
<1>1. TypeOK
  BY DEF TypeOK, Config, PCs, Creating, Writing
<1>2. CredentialsOwner /\ DocumentOwner
  BY
     DEF CredentialsOwner, CredentialsOwned, DocumentOwner, DocumentOwned,
         Writing, HasCredentials, HasDocument
<1>3. Locations
  BY DEF Locations
<1>. QED
  BY <1>1, <1>2, <1>3 DEF IInv

\* The steps of ConfigureLocation keep the invariant.
LEMMA LocationStepKeeps ==
  ASSUME IInv, NEW p \in Processes, ConfigureLocation(p)
  PROVE  IInv'
<1>. USE NoneAssumption
     DEF ConfigureLocation, LocationStep, Go, Load, LoadFails,
         CreateCredentials, CreateIf, FillCredentials, CredentialsFailed,
         CredentialsFail, CreateDocument, FillDocument, DocumentFailed,
         DocumentFails, UndoCredentials, UndoDocument, RemoveIf,
         credentialVars, documentVars
<1>0. TypeOK /\ CredentialsOwner /\ DocumentOwner /\ Locations
  BY DEF IInv
<1>1. /\ UNCHANGED <<profile, temporaries, output, daemon, listening>>
      /\ pc' = [pc EXCEPT ![p] = pc'[p]] /\ pc'[p] \in PCs
      /\ loaded' = [loaded EXCEPT ![p] = loaded'[p]]
  BY <1>0 DEF TypeOK, daemonVars, PCs, Creating, Writing
<1>2. TypeOK'
  <2>1. credentials' \in Processes \cup {None} /\ written' \in BOOLEAN
    BY <1>0 DEF TypeOK
  <2>2. /\ documents' \in [Documents -> Processes \cup {None}]
        /\ writtenDocuments' \subseteq Documents
    BY <1>0 DEF TypeOK
  <2>3. loaded'[p] \in Config
    BY <1>0 DEF TypeOK, Config
  <2>. QED
    BY <1>0, <1>1, <2>1, <2>2, <2>3 DEF TypeOK
<1>3. \A q \in Processes \ {p} : pc'[q] = pc[q] /\ loaded'[q] = loaded[q]
  BY <1>0, <1>1 DEF TypeOK
<1>4. CredentialsOwner'
  <2>. USE DEF HasCredentials
  <2>1. CASE CreateCredentials(p)
    BY <1>0, <1>1, <1>3, <2>1
       DEF CredentialsOwner, CredentialsOwned, Locations, TypeOK, Writing
  <2>2. CASE FillCredentials(p)
    BY <1>0, <1>1, <1>3, <2>2
       DEF CredentialsOwner, CredentialsOwned, Locations, TypeOK, Writing
  <2>3. CASE DocumentFailed(p) \/ UndoCredentials(p)
    BY <1>0, <1>1, <1>3, <2>3
       DEF CredentialsOwner, CredentialsOwned, Locations, TypeOK, Writing
  <2>4. CASE UNCHANGED credentialVars
    <3>1. CASE FillDocument(p)
      BY <1>0, <1>1, <1>3, <2>4, <3>1
         DEF CredentialsOwner, CredentialsOwned, Locations, TypeOK, Writing
    <3>2. CASE Load(p) \/ LoadFails(p) \/ CreateDocument(p)
      BY <1>0, <1>1, <1>3, <2>4, <3>2
         DEF CredentialsOwner, CredentialsOwned, Locations, TypeOK, Writing
    <3>3. CASE CredentialsFailed(p) \/ UndoDocument(p)
      BY <1>0, <1>1, <1>3, <2>4, <3>3
         DEF CredentialsOwner, CredentialsOwned, Locations, TypeOK, Writing
    <3>4. CASE \/ CreateCredentials(p) \/ FillCredentials(p)
               \/ DocumentFailed(p) \/ UndoCredentials(p)
      BY <2>1, <2>2, <2>3, <3>4
    <3>. QED
      BY <3>1, <3>2, <3>3, <3>4
  <2>5. CredentialsFailed(p) => UNCHANGED credentialVars
    BY <1>0 DEF TypeOK
  <2>. QED
    BY <2>4, <2>1, <2>2, <2>3, <2>5
<1>5. DocumentOwner'
  <2>. USE DEF HasDocument
  <2>1. CASE UNCHANGED documentVars
    BY <1>0, <1>1, <1>3, <2>1
       DEF DocumentOwner, DocumentOwned, Locations, TypeOK, Writing
  <2>2. CASE CreateDocument(p)
    BY <1>0, <1>1, <1>3, <2>2
       DEF DocumentOwner, DocumentOwned, Locations, TypeOK, Writing
  <2>3. CASE FillDocument(p)
    BY <1>0, <1>1, <1>3, <2>3
       DEF DocumentOwner, DocumentOwned, Locations, TypeOK, Writing
  <2>4. CASE UndoDocument(p)
    BY <1>0, <1>1, <1>3, <2>4
       DEF DocumentOwner, DocumentOwned, Locations, TypeOK, Writing
  <2>. QED
    BY <2>1, <2>2, <2>3, <2>4
<1>6. Locations'
  <2>1. \A q \in Processes : pc[q] = "done" => q # p
    BY <1>0
  <2>2. temporaries \cap {p} # {} => FALSE
    BY <1>0 DEF Locations
  <2>3. /\ loaded'[p].location \in {None, p}
        /\ pc'[p] \in {"undo_credentials", "undo_output"} => loaded'[p].location = p
        /\ pc'[p] \in {"idle", "credentials", "filling", "document",
                       "filling_document"} => loaded'[p].location = None
    BY <1>0 DEF Locations, TypeOK, Config
  <2>4. written' => credentials' # None
    <3>1. CASE CreateCredentials(p) \/ FillCredentials(p)
      BY <1>0, <3>1 DEF CredentialsOwner, CredentialsOwned
    <3>2. CASE DocumentFailed(p) \/ UndoCredentials(p)
      BY <1>0, <3>2 DEF TypeOK
    <3>3. CASE CredentialsFailed(p) \/ UNCHANGED credentialVars
      BY <1>0, <3>3 DEF Locations, TypeOK
    <3>. QED
      BY <3>1, <3>2, <3>3
  <2>5. \A d \in writtenDocuments' : documents'[d] # None
    <3>1. CASE CreateDocument(p) \/ UndoDocument(p)
      BY <1>0, <3>1 DEF Locations, TypeOK
    <3>2. CASE FillDocument(p)
      BY <1>0, <3>2 DEF Locations, TypeOK, DocumentOwner, DocumentOwned
    <3>3. CASE UNCHANGED documentVars
      BY <1>0, <3>3 DEF Locations
    <3>. QED
      BY <3>1, <3>2, <3>3
  <2>. QED
    BY <1>0, <1>1, <1>3, <2>1, <2>2, <2>3, <2>4, <2>5 DEF Locations, TypeOK
<1>. QED
  BY <1>2, <1>4, <1>5, <1>6 DEF IInv

\* configure, WriteConfig and a kill keep it.
LEMMA WriteStepKeeps ==
  ASSUME IInv, NEW p \in Processes, Configure(p) \/ WriteConfig(p) \/ Kill(p)
  PROVE  IInv'
<1>. USE NoneAssumption
     DEF Configure, WriteConfig, WriteStep, Go, CreateTemporary, WriteTemporary,
         Rename, WriteFailed, AfterError, Kill, files, daemonVars,
         credentialVars, documentVars
<1>0. TypeOK /\ CredentialsOwner /\ DocumentOwner /\ Locations
  BY DEF IInv
<1>1. /\ UNCHANGED <<credentials, written, documents, writtenDocuments, output,
                     daemon, listening>>
      /\ pc' = [pc EXCEPT ![p] = pc'[p]] /\ pc'[p] \in PCs
      /\ loaded' = [loaded EXCEPT ![p] = loaded'[p]] /\ loaded'[p] \in Config
      /\ profile' \in Config /\ temporaries' \subseteq Processes
  BY <1>0 DEF TypeOK, PCs, Creating, Writing, Config
<1>2. TypeOK'
  BY <1>0, <1>1 DEF TypeOK
<1>3. \A q \in Processes \ {p} :
          /\ pc'[q] = pc[q] /\ loaded'[q] = loaded[q]
          /\ q \in temporaries' => q \in temporaries
  BY <1>0, <1>1 DEF TypeOK
<1>4. \/ pc[p] = "idle" /\ pc'[p] = "create" /\ loaded'[p].location = None
      \/ pc[p] \in Writing /\ loaded' = loaded /\ pc'[p] \in Writing \cup {"done"}
      \/ /\ pc[p] \in Writing /\ loaded' = loaded
         /\ pc'[p] = "undo_credentials" /\ loaded[p].location = p
      \/ /\ pc[p] \in Writing /\ loaded' = loaded
         /\ pc'[p] = "failed" /\ loaded[p].location # p
      \/ pc'[p] = "killed" /\ loaded' = loaded /\ pc[p] \notin {"idle", "done", "failed"}
  BY <1>0 DEF TypeOK, Writing
<1>5. CredentialsOwner'
  <2>. SUFFICES ASSUME NEW q \in Processes
                PROVE  CredentialsOwned(q)'
    BY DEF CredentialsOwner
  <2>. USE DEF CredentialsOwned, HasCredentials
  <2>1. CredentialsOwned(q)
    BY <1>0 DEF CredentialsOwner
  <2>2. CASE q # p
    BY <1>1, <1>3, <2>1, <2>2
  <2>3. CASE q = p
    BY <1>0, <1>1, <1>4, <2>1, <2>3 DEF Locations, TypeOK, Writing
  <2>. QED
    BY <2>2, <2>3
<1>6. DocumentOwner'
  <2>. SUFFICES ASSUME NEW q \in Processes
                PROVE  DocumentOwned(q)'
    BY DEF DocumentOwner
  <2>. USE DEF DocumentOwned, HasDocument
  <2>1. DocumentOwned(q)
    BY <1>0 DEF DocumentOwner
  <2>2. CASE q # p
    BY <1>1, <1>3, <2>1, <2>2
  <2>3. CASE q = p
    BY <1>0, <1>1, <1>4, <2>1, <2>3 DEF Locations, TypeOK, Writing
  <2>. QED
    BY <2>2, <2>3
<1>7. Locations'
  <2>1. /\ loaded'[p].location \in {None, p}
        /\ pc'[p] \in {"undo_credentials", "undo_output"} => loaded'[p].location = p
        /\ pc'[p] \notin {"idle", "credentials", "filling", "document",
                       "filling_document"}
    BY <1>0, <1>4 DEF Locations, TypeOK, Writing
  <2>2. p \in temporaries' => pc'[p] \in {"write", "rename", "killed"}
    BY <1>0 DEF Locations, TypeOK, Writing
  <2>3. \/ profile' = profile
        \/ profile' = loaded[p] /\ pc'[p] = "done" /\ loaded' = loaded
    BY <1>0, <1>1 DEF TypeOK
  <2>4. pc[p] # "done"
    BY <1>4 DEF Writing
  <2>. QED
    BY <1>0, <1>1, <1>3, <2>1, <2>2, <2>3, <2>4 DEF Locations, TypeOK
<1>. QED
  BY <1>2, <1>5, <1>6, <1>7 DEF IInv

\* The daemon finds what its profile promised, so its steps keep it too.
LEMMA DaemonStepKeeps ==
  ASSUME IInv, DaemonLoads \/ DaemonListens \/ DaemonRestarts \/ UNCHANGED vars
  PROVE  IInv'
<1>. USE NoneAssumption DEF DaemonLoads, DaemonListens, DaemonRestarts, files,
         vars, daemonVars, credentialVars, documentVars
<1>0. TypeOK /\ CredentialsOwner /\ DocumentOwner /\ Locations
  BY DEF IInv
<1>1. daemon = "loaded" => written
  BY <1>0
     DEF Locations, CredentialsOwner, CredentialsOwned, TypeOK, HasCredentials
<1>2. TypeOK'
  BY <1>0 DEF TypeOK, Config
<1>3. (CredentialsOwner /\ DocumentOwner)'
  BY <1>0
     DEF CredentialsOwner, CredentialsOwned, DocumentOwner, DocumentOwned,
         HasCredentials, HasDocument
<1>4. Locations'
  BY <1>0, <1>1 DEF Locations, TypeOK
<1>. QED
  BY <1>2, <1>3, <1>4 DEF IInv

\* IInv holds in every reachable state of the profile directory.
THEOREM Invariant == Spec => []IInv
<1>1. IInv /\ [Next]_vars => IInv'
  BY LocationStepKeeps, WriteStepKeeps, DaemonStepKeeps DEF Next
<1>. QED
  BY InitHolds, <1>1, PTL DEF Spec

\* A profile with a location is always backed by its two documents.
THEOREM LocationBackedHolds == Spec => []LocationBacked
<1>1. IInv => LocationBacked
  BY NoneAssumption
     DEF IInv, LocationBacked, Locations, CredentialsOwner, CredentialsOwned,
            DocumentOwner, DocumentOwned
<1>. QED
  BY Invariant, <1>1, PTL

\* A daemon that starts finds the credentials its profile names.
THEOREM DaemonFindsCredentialsHolds == Spec => []DaemonFindsCredentials
<1>1. IInv => DaemonFindsCredentials
  BY NoneAssumption
     DEF IInv, DaemonFindsCredentials, Locations, CredentialsOwner,
            CredentialsOwned, TypeOK
<1>. QED
  BY Invariant, <1>1, PTL

\* A command that fails leaves nothing usable of its own behind.
THEOREM FailureRollsBackHolds == Spec => []FailureRollsBack
<1>1. IInv => FailureRollsBack
  BY
     DEF IInv, FailureRollsBack, Locations, CredentialsOwner,
         CredentialsOwned, DocumentOwner, DocumentOwned, Writing
<1>. QED
  BY Invariant, <1>1, PTL

-----------------------------------------------------------------------------
(* The launch agent *)

\* What the agents do is invisible to the profile directory, so its theorems
\* hold of the two together.
LEMMA AgentsKeepProfile == AgentSpec => Spec
<1>1. AgentInit => Init
  BY DEF AgentInit
<1>2. [AgentNext]_allVars => [Next]_vars
  <2>1. ASSUME NEW a \in Agents,
               InstallLaunchAgent(a) \/ RemoveLaunchAgent(a) \/ KillAgent(a)
        PROVE  UNCHANGED vars
    BY <2>1 DEF InstallLaunchAgent, Install, Begin, Stage, RenamePlist,
       NotWritten, Bootout, Bootstrap, BootstrapFails, BootstrapFailsTo,
       RemoveLaunchAgent, Remove, Unlink, KillAgent, Continue, Step
  <2>2. Login => UNCHANGED vars
    BY DEF Login
  <2>. QED
    BY <2>1, <2>2 DEF AgentNext, allVars
<1>. QED
  BY <1>1, <1>2, PTL DEF AgentSpec, Spec

\* No command was given yet.
LEMMA AgentInitHolds == AgentInit => AgentIInv
BY AgentsAssumption
   DEF AgentInit, AgentIInv, AgentTypeOK, Alone, Achieved, AgentAsCommanded,
       StopIsReported, InProgress

\* A step of one command keeps the invariant: the others stay where they are.
LEMMA AgentStepKeeps ==
  ASSUME AgentIInv, NEW a \in Agents,
         InstallLaunchAgent(a) \/ RemoveLaunchAgent(a) \/ KillAgent(a)
  PROVE  AgentIInv'
<1>. USE AgentsAssumption DEF AgentIInv
<1>. USE DEF InstallLaunchAgent, Install, Begin, Stage, RenamePlist, NotWritten,
         Bootout, Bootstrap, BootstrapFails, BootstrapFailsTo,
         RemoveLaunchAgent, Remove, Unlink, KillAgent, Continue, Step
<1>1. /\ at' = [at EXCEPT ![a] = at'[a]] /\ UNCHANGED action
      /\ at[a] \in {"idle"} \cup InProgress
      /\ at'[a] \in {"done", "failed"} \cup InProgress
  BY DEF AgentTypeOK, InProgress
<1>2. AgentTypeOK'
  <2>1. staged' \subseteq Agents /\ {plist', job', last'} \subseteq Agents \cup {None}
    BY DEF AgentTypeOK
  <2>2. overlapped' \in BOOLEAN /\ kept' \in BOOLEAN
    BY Zenon DEF AgentTypeOK
  <2>. QED
    BY <1>1, <2>1, <2>2 DEF AgentTypeOK
<1>3. \A b \in Agents \ {a} : at'[b] = at[b]
  BY <1>1 DEF AgentTypeOK
<1>4. StopIsReported'
  <2>1. CASE at'[a] \in InProgress \cup {"failed"}
    BY <2>1 DEF StopIsReported
  <2>2. CASE at'[a] = "done"
    BY <2>2 DEF StopIsReported, AgentTypeOK, InProgress
  <2>. QED
    BY <1>1, <2>1, <2>2
<1>5. CASE at[a] = "idle"
  <2>1. CASE Install(a) \/ Remove(a)
    <3>1. /\ last' = a /\ (~overlapped' => \A b \in Agents : at[b] \notin InProgress)
          /\ \/ action[a] = "install" /\ at'[a] = "staging"
             \/ action[a] = "remove" /\ at'[a] = "removing"
      BY <1>1, <1>5, <2>1 DEF AgentTypeOK, InProgress
    <3>2. Alone'
      BY <1>3, <3>1 DEF Alone
    <3>3. ASSUME NEW b \in Agents PROVE Achieved(b)'
      BY <1>1, <1>3, <3>1 DEF Achieved
    <3>4. AgentAsCommanded'
      BY <3>1 DEF AgentAsCommanded
    <3>. QED
      BY <1>2, <1>4, <3>2, <3>3, <3>4
  <2>2. CASE NotWritten(a)
    BY <1>1, <1>2, <1>3, <1>4, <1>5, <2>2
       DEF AgentTypeOK, Alone, Achieved, AgentAsCommanded, InProgress
  <2>. QED
    BY <1>5, <2>1, <2>2 DEF InProgress
<1>6. CASE at[a] \in InProgress
  <2>1. UNCHANGED <<last, overlapped>> /\ (~overlapped => a = last)
    BY <1>6 DEF Alone, InProgress
  <2>2. Alone'
    BY <1>1, <1>3, <1>6, <2>1 DEF Alone
  <2>3. ASSUME NEW b \in Agents PROVE Achieved(b)'
    BY <1>1, <1>3, <1>6, <2>1 DEF Achieved, AgentTypeOK, InProgress
  <2>4. AgentAsCommanded'
    BY <1>1, <1>3, <1>6, <2>1
       DEF AgentAsCommanded, Achieved, AgentTypeOK, InProgress
  <2>. QED
    BY <1>2, <1>4, <2>2, <2>3, <2>4
<1>. QED
  BY <1>1, <1>5, <1>6

\* So do the commands of Profile, which touch nothing of the agents, and a
\* login, which ends every command and starts the job from the property list.
LEMMA AgentOtherKeeps ==
  ASSUME AgentIInv, UNCHANGED agentVars \/ Login
  PROVE  AgentIInv'
<1>. USE AgentsAssumption
     DEF AgentIInv, AgentTypeOK, Alone, Achieved, AgentAsCommanded,
         StopIsReported, InProgress
<1>1. CASE UNCHANGED agentVars
  BY <1>1 DEF agentVars
<1>2. CASE Login
  BY <1>2 DEF Login
<1>. QED
  BY <1>1, <1>2

\* The invariant holds in every reachable state of the two together.
THEOREM AgentInvariant == AgentSpec => []AgentIInv
<1>1. AgentIInv /\ [AgentNext]_allVars => AgentIInv'
  BY AgentStepKeeps, AgentOtherKeeps DEF AgentNext, allVars
<1>. QED
  BY AgentInitHolds, <1>1, PTL DEF AgentSpec

\* A command that had launchd to itself and reports success took effect.
THEOREM AgentAsCommandedHolds == AgentSpec => []AgentAsCommanded
<1>1. AgentIInv => AgentAsCommanded
  BY DEF AgentIInv
<1>. QED
  BY AgentInvariant, <1>1, PTL

\* Commands that all report success leave no property list without its job.
THEOREM StopIsReportedHolds == AgentSpec => []StopIsReported
<1>1. AgentIInv => StopIsReported
  BY DEF AgentIInv
<1>. QED
  BY AgentInvariant, <1>1, PTL

\* What Profile promises holds beside the commands of the launch agent.
THEOREM ProfilePromisesBesideAgents ==
  AgentSpec => [](LocationBacked /\ DaemonFindsCredentials /\ FailureRollsBack)
BY AgentsKeepProfile, LocationBackedHolds, DaemonFindsCredentialsHolds,
   FailureRollsBackHolds, PTL

=============================================================================
